---- MODULE Spec2Model ----
(***************************************************************************)
(* Model of src/Simple-Image-Compressor.py: the background worker          *)
(* CompressionWorker (a QThread) and the window ClarityCompressApp that     *)
(* owns it.  The worker's signals are queued to the GUI thread; `events`    *)
(* is the sequence of emissions of the current worker and `delivered` the   *)
(* number of them the GUI thread has already handled.  The texts of the     *)
(* labels, the value of the progress bar, the list widget and the message   *)
(* boxes are written by the slots and read by none of them: they are       *)
(* outputs of the program and not part of the state below.                  *)
(***************************************************************************)
EXTENDS Integers, Sequences, FiniteSets, TLC

(***************************************************************************)
(* Bounds of the model.                                                     *)
(***************************************************************************)
\* number of image files that exist on disk
MaxFiles == 2
\* largest total_files for which the progress arithmetic is explored alone
MaxTotalFiles == 50

(***************************************************************************)
(* Binary64 arithmetic, as far as line 69 needs it:                         *)
(*     int(((i + 1) / total_files) * 100)                                   *)
(* int / int is a correctly rounded binary64 quotient, * 100 a correctly    *)
(* rounded binary64 product, int() truncates.  Significands do not fit the  *)
(* model checker's integers, so a natural number is a sequence of limbs     *)
(* in base 2^LimbBits, least significant first, without leading zero        *)
(* limbs (zero is <<>>).  A float is a record [m |-> significand, a         *)
(* natural of exactly MantBits bits, e |-> the binary exponent of its most  *)
(* significant bit].                                                        *)
(***************************************************************************)
MantBits == 53

LimbBits == 16

Base == 2 ^ LimbBits

Front(s) == SubSeq(s, 1, Len(s) - 1)

Last(s) == s[Len(s)]

Tail2(s) == SubSeq(s, 2, Len(s))

Zeros(n) == [k \in 1..n |-> 0]

\* drop the leading (most significant) zero limbs
RECURSIVE BigNorm(_)
BigNorm(x) == IF x # <<>> /\ Last(x) = 0 THEN BigNorm(Front(x)) ELSE x

BigFromInt(n) == IF n = 0 THEN <<>> ELSE <<n>>

\* x * k + c for a small k (k * Base fits an integer)
RECURSIVE BigMulAdd(_, _, _)
BigMulAdd(x, k, c) ==
    IF x = <<>> THEN BigFromInt(c)
    ELSE LET t == x[1] * k + c
         IN  <<t % Base>> \o BigMulAdd(Tail2(x), k, t \div Base)

BigMulSmall(x, k) == BigNorm(BigMulAdd(x, k, 0))

BigInc(x) == BigNorm(BigMulAdd(x, 1, 1))

\* long division of x by a small d, most significant limb first, entered
\* with remainder r: [q |-> quotient limbs, r |-> remainder]
RECURSIVE BigDivStep(_, _, _)
BigDivStep(x, d, r) ==
    IF x = <<>> THEN [q |-> <<>>, r |-> r]
    ELSE LET t    == r * Base + Last(x)
             rest == BigDivStep(Front(x), d, t % d)
         IN  [q |-> rest.q \o <<t \div d>>, r |-> rest.r]

BigDivSmall(x, d) ==
    LET res == BigDivStep(x, d, 0) IN [q |-> BigNorm(res.q), r |-> res.r]

\* x * 2^n
BigShl(x, n) ==
    IF x = <<>> THEN <<>>
    ELSE Zeros(n \div LimbBits) \o BigMulSmall(x, 2 ^ (n % LimbBits))

\* floor(x / 2^n)
BigShr(x, n) ==
    IF n \div LimbBits >= Len(x) THEN <<>>
    ELSE BigDivSmall(SubSeq(x, n \div LimbBits + 1, Len(x)),
                     2 ^ (n % LimbBits)).q

BigIsOdd(x) == x # <<>> /\ x[1] % 2 = 1

\* number of bits of a small integer
RECURSIVE IntBitLen(_)
IntBitLen(n) == IF n = 0 THEN 0 ELSE 1 + IntBitLen(n \div 2)

BigBitLen(x) ==
    IF x = <<>> THEN 0 ELSE (Len(x) - 1) * LimbBits + IntBitLen(Last(x))

\* the value of a natural that fits an integer
RECURSIVE BigToInt(_)
BigToInt(x) == IF x = <<>> THEN 0 ELSE x[1] + Base * BigToInt(Tail2(x))

\* the float nearest to x * 2^s (ties to even) for a natural x >= 1;
\* `sticky` says that x was cut from a longer expansion with nonzero bits
RoundNearestEven(x, s, sticky) ==
    LET len  == BigBitLen(x)
        cut  == len - MantBits
        e    == s + len - 1
    IN  IF cut <= 0
        THEN [m |-> BigShl(x, 0 - cut), e |-> e]
        ELSE LET m     == BigShr(x, cut)
                 guard == BigIsOdd(BigShr(x, cut - 1))
                 rest  == sticky \/ BigShl(BigShr(x, cut - 1), cut - 1) # x
                 up    == guard /\ (rest \/ BigIsOdd(m))
                 inc   == BigInc(m)
             IN  IF ~up THEN [m |-> m, e |-> e]
                 ELSE IF BigBitLen(inc) = MantBits THEN [m |-> inc, e |-> e]
                 ELSE [m |-> BigShr(inc, 1), e |-> e + 1]

\* a / b for integers a, b >= 1 (Python's true division of ints): the
\* quotient a * 2^k / b is taken with k large enough for MantBits + 1
\* quotient bits, the remainder is the sticky bit
FloatDiv(a, b) ==
    LET k   == MantBits + 1 + IntBitLen(b)
        res == BigDivSmall(BigShl(BigFromInt(a), k), b)
    IN  RoundNearestEven(res.q, 0 - k, res.r # 0)

\* x * k for a float x and a small integer k >= 1
FloatMulInt(x, k) ==
    RoundNearestEven(BigMulSmall(x.m, k), x.e - (MantBits - 1), FALSE)

\* int(x): truncation towards zero of a positive float
FloatToInt(x) ==
    IF x.e < 0 THEN 0
    ELSE IF x.e < MantBits THEN BigToInt(BigShr(x.m, MantBits - 1 - x.e))
    ELSE BigToInt(BigShl(x.m, x.e - (MantBits - 1)))

\* line 69: progress_percent = int(((i + 1) / total_files) * 100)
ProgressPercent(i, total_files) ==
    FloatToInt(FloatMulInt(FloatDiv(i + 1, total_files), 100))

(***************************************************************************)
(* The file system as the program sees it.  A path is a record             *)
(* [dir, name]; os.path.basename is the name field and os.path.join(d, n)   *)
(* the record [dir |-> d, name |-> n].                                      *)
(***************************************************************************)
\* the folders a directory dialog offers: r holds images, o is empty
Dirs == {"r", "o"}

Path(d, n) == [dir |-> d, name |-> n]

basename(p) == p.name

\* the image files there can be: r/x.jpg, another x.jpg in the subfolder
\* r/s, and r/y.png
AllFiles == <<Path("r", "x.jpg"), Path("r/s", "x.jpg"), Path("r", "y.png")>>

\* the image files that exist
Files == {AllFiles[k] : k \in 1..(IF MaxFiles < 3 THEN MaxFiles ELSE 3)}

\* lines 149-153: the image files os.walk finds below a folder, top down
FolderImages(folder) ==
    IF folder = "r"
    THEN SelectSeq(<<Path("r", "x.jpg"), Path("r", "y.png"),
                     Path("r/s", "x.jpg")>>, LAMBDA p : p \in Files)
    ELSE <<>>

Range(s) == {s[k] : k \in 1..Len(s)}

\* what a file dialog can return: a non-empty selection of distinct files,
\* in the order the dialog lists them (successive selections still bring
\* image_files into every order)
FileLists ==
    {SelectSeq(AllFiles, LAMBDA p : p \in S) : S \in (SUBSET Files) \ {{}}}

\* os.path.getsize of an input file, in bytes (the program divides by 1024
\* and adds the quotients, which is exact in binary64); the sizes are
\* chosen so that a sum tells which files it was taken over
getsize(p) ==
    CASE p = Path("r", "x.jpg")   -> 1
      [] p = Path("r", "y.png")   -> 2
      [] p = Path("r/s", "x.jpg") -> 4

\* lines 49-50: the path the item of input file_path is written to in the
\* directory dir
output_path(dir, file_path) == Path(dir, basename(file_path))

\* os.path.getsize of the file written for input p
getsize_output(p) ==
    CASE p = Path("r", "x.jpg")   -> 8
      [] p = Path("r", "y.png")   -> 16
      [] p = Path("r/s", "x.jpg") -> 32

VARIABLES
    image_files,            \* ClarityCompressApp.image_files
    output_directory,       \* ClarityCompressApp.output_directory
    compress_enabled,       \* compress_btn.isEnabled()
    clear_enabled,          \* clear_btn.isEnabled()
    window,                 \* "open", "closing" (in worker.wait()), "closed"
    pc,                     \* where the worker thread is
    is_running,             \* CompressionWorker.is_running
    output_dir,             \* CompressionWorker.output_dir
    total_files,            \* locals of CompressionWorker.run
    compressed_count,
    original_size_total,
    compressed_size_total,
    i,
    events,                 \* signals the current worker has emitted
    delivered,              \* how many of them the GUI thread has handled
    job_inputs,             \* history: image_files when the worker was made
    log,                    \* history: the outcome of each visited item
    stop_at,                \* history: where the run was when stop() was
                            \* first called
    last_call               \* history: the last call made on the worker and
                            \* the exception it raised ("" if it returned)

vars == <<image_files, output_directory, compress_enabled, clear_enabled,
          window, pc, is_running, output_dir, total_files, compressed_count,
          original_size_total, compressed_size_total, i, events, delivered,
          job_inputs, log, stop_at, last_call>>

hostVars == <<image_files, output_directory, compress_enabled, clear_enabled,
              window>>

workerLocals == <<total_files, compressed_count, original_size_total,
                  compressed_size_total, i>>

\* line 21: self.image_paths = image_paths binds the caller's list object,
\* the one start_compression passes at line 190 (self.image_files)
image_paths == image_files

\* the signals of lines 15-17; idx is the loop index of the emission
StatusEv(idx, text, name) ==
    [type |-> "status", idx |-> idx, text |-> text, name |-> name]

ProgressEv(idx, percent) ==
    [type |-> "progress", idx |-> idx, percent |-> percent]

FinishedEv(count, original, compressed) ==
    [type |-> "finished", count |-> count, original |-> original,
     compressed |-> compressed]

\* stop() has not been called on the current worker
NotStopped ==
    [called |-> FALSE, again |-> FALSE, entered |-> 0, processed |-> 0]

\* no call has been made on a worker yet
NoCall == [op |-> "none", started |-> FALSE, raised |-> ""]

\* QThread.isRunning()
isRunning == pc \notin {"none", "done"}

(***************************************************************************)
(* The window after ClarityCompressApp.__init__ (lines 80-134).            *)
(***************************************************************************)
Init ==
    /\ image_files = <<>>
    /\ output_directory = ""
    /\ compress_enabled = TRUE
    /\ clear_enabled = TRUE
    /\ window = "open"
    /\ pc = "none"
    /\ is_running = FALSE
    /\ output_dir = ""
    /\ total_files = 0
    /\ compressed_count = 0
    /\ original_size_total = 0
    /\ compressed_size_total = 0
    /\ i = 0
    /\ events = <<>>
    /\ delivered = 0
    /\ job_inputs = <<>>
    /\ log = <<>>
    /\ stop_at = NotStopped
    /\ last_call = NoCall

(***************************************************************************)
(* CompressionWorker.run, lines 25-72, one action per step.                 *)
(***************************************************************************)
\* RunBegin with the flag set again as the run begins
RunBegin_ResetsFlag ==
    /\ pc = "run"
    /\ total_files' = Len(image_paths)
    /\ compressed_count' = 0
    /\ original_size_total' = 0
    /\ compressed_size_total' = 0
    /\ i' = 0
    /\ is_running' = TRUE
    /\ pc' = "loop"
    /\ UNCHANGED <<hostVars, output_dir, events, delivered, job_inputs, log,
                   stop_at,
                   last_call>>

\* RunBegin announcing a progress of 0 before the loop
RunBegin_EmitsProgress ==
    /\ pc = "run"
    /\ total_files' = Len(image_paths)
    /\ compressed_count' = 0
    /\ original_size_total' = 0
    /\ compressed_size_total' = 0
    /\ i' = 0
    /\ events' = Append(events, ProgressEv(0, 0))
    /\ pc' = "loop"
    /\ UNCHANGED <<hostVars, is_running, output_dir, delivered, job_inputs,
                   log, stop_at, last_call>>

\* lines 27-30
RunBegin ==
    /\ pc = "run"
    /\ total_files' = Len(image_paths)
    /\ compressed_count' = 0
    /\ original_size_total' = 0
    /\ compressed_size_total' = 0
    /\ i' = 0
    /\ pc' = "loop"
    /\ UNCHANGED <<hostVars, is_running, output_dir, events, delivered,
                   job_inputs, log, stop_at,
                   last_call>>

\* line 32: the list iterator is exhausted
LoopExhausted ==
    /\ pc = "loop"
    /\ i >= Len(image_paths)
    /\ pc' = "finish"
    /\ UNCHANGED <<hostVars, workerLocals, is_running, output_dir, events,
                   delivered, job_inputs, log, stop_at,
                   last_call>>

\* CheckCancelled leaving run with return instead of break
CheckCancelled_Return ==
    /\ pc = "loop"
    /\ i < Len(image_paths)
    /\ ~is_running
    /\ pc' = "done"
    /\ UNCHANGED <<hostVars, workerLocals, is_running, output_dir, events,
                   delivered, job_inputs, log, stop_at,
                   last_call>>

\* lines 32-34: the next item is fetched and the flag is found cleared
CheckCancelled ==
    /\ pc = "loop"
    /\ i < Len(image_paths)
    /\ ~is_running
    /\ pc' = "finish"
    /\ UNCHANGED <<hostVars, workerLocals, is_running, output_dir, events,
                   delivered, job_inputs, log, stop_at,
                   last_call>>

\* EmitStatus entering the item whatever the flag says
EmitStatus_NoCheck ==
    /\ pc = "loop"
    /\ i < Len(image_paths)
    /\ events' = Append(events,
                        StatusEv(i, "Compressing", basename(image_paths[i + 1])))
    /\ pc' = "try"
    /\ UNCHANGED <<hostVars, workerLocals, is_running, output_dir, delivered,
                   job_inputs, log, stop_at,
                   last_call>>

\* lines 32-36: the next item is fetched, the flag is set, status is emitted
EmitStatus ==
    /\ pc = "loop"
    /\ i < Len(image_paths)
    /\ is_running
    /\ events' = Append(events,
                        StatusEv(i, "Compressing", basename(image_paths[i + 1])))
    /\ pc' = "try"
    /\ UNCHANGED <<hostVars, workerLocals, is_running, output_dir, delivered,
                   job_inputs, log, stop_at,
                   last_call>>

\* lines 39, 65: os.path.getsize(file_path) raises
GetSizeFails ==
    /\ pc = "try"
    /\ log' = Append(log, [idx |-> i, ok |-> FALSE, original |-> 0,
                           compressed |-> 0])
    /\ pc' = "except"
    /\ UNCHANGED <<hostVars, workerLocals, is_running, output_dir, events,
                   delivered, job_inputs, stop_at,
                   last_call>>

\* SaveFails with the exception ending the loop
SaveFails_Abort ==
    /\ pc = "try"
    /\ LET original_size == getsize(image_paths[i + 1])
       IN  /\ original_size_total' = original_size_total + original_size
           /\ log' = Append(log, [idx |-> i, ok |-> FALSE,
                                  original |-> original_size,
                                  compressed |-> 0])
    /\ pc' = "finish"
    /\ UNCHANGED <<hostVars, total_files, compressed_count,
                   compressed_size_total, i, is_running, output_dir, events,
                   delivered, job_inputs, stop_at,
                   last_call>>

\* lines 39-61, 65: the size is added, then Image.open, image.save or the
\* second getsize raises
SaveFails ==
    /\ pc = "try"
    /\ LET original_size == getsize(image_paths[i + 1])
       IN  /\ original_size_total' = original_size_total + original_size
           /\ log' = Append(log, [idx |-> i, ok |-> FALSE,
                                  original |-> original_size,
                                  compressed |-> 0])
    /\ pc' = "except"
    /\ UNCHANGED <<hostVars, total_files, compressed_count,
                   compressed_size_total, i, is_running, output_dir, events,
                   delivered, job_inputs, stop_at,
                   last_call>>

\* EmitError with the handler going on to the next item (continue)
EmitError_Continue ==
    /\ pc = "except"
    /\ events' = Append(events,
                        StatusEv(i, "Error", basename(image_paths[i + 1])))
    /\ i' = i + 1
    /\ pc' = "loop"
    /\ UNCHANGED <<hostVars, total_files, compressed_count,
                   original_size_total, compressed_size_total, is_running,
                   output_dir, delivered, job_inputs, log, stop_at,
                   last_call>>

\* lines 65-66: the handler emits the error as a status
EmitError ==
    /\ pc = "except"
    /\ events' = Append(events,
                        StatusEv(i, "Error", basename(image_paths[i + 1])))
    /\ pc' = "progress"
    /\ UNCHANGED <<hostVars, workerLocals, is_running, output_dir, delivered,
                   job_inputs, log, stop_at,
                   last_call>>

\* lines 39-63: the item is written
ItemSucceeds ==
    /\ pc = "try"
    /\ LET original_size   == getsize(image_paths[i + 1])
           compressed_size == getsize_output(image_paths[i + 1])
       IN  /\ original_size_total' = original_size_total + original_size
           /\ compressed_size_total' = compressed_size_total + compressed_size
           /\ log' = Append(log, [idx |-> i, ok |-> TRUE,
                                  original |-> original_size,
                                  compressed |-> compressed_size])
    /\ compressed_count' = compressed_count + 1
    /\ pc' = "progress"
    /\ UNCHANGED <<hostVars, total_files, i, is_running, output_dir, events,
                   delivered, job_inputs, stop_at,
                   last_call>>

\* lines 69-70, and the loop index moves on
EmitProgress ==
    /\ pc = "progress"
    /\ events' = Append(events, ProgressEv(i, ProgressPercent(i, total_files)))
    /\ i' = i + 1
    /\ pc' = "loop"
    /\ UNCHANGED <<hostVars, total_files, compressed_count,
                   original_size_total, compressed_size_total, is_running,
                   output_dir, delivered, job_inputs, log, stop_at,
                   last_call>>

\* line 72, after which run returns: its locals are gone and the thread
\* ends
EmitFinished ==
    /\ pc = "finish"
    /\ events' = Append(events, FinishedEv(compressed_count,
                                           original_size_total,
                                           compressed_size_total))
    /\ total_files' = 0
    /\ compressed_count' = 0
    /\ original_size_total' = 0
    /\ compressed_size_total' = 0
    /\ i' = 0
    /\ pc' = "done"
    /\ UNCHANGED <<hostVars, is_running, output_dir, delivered, job_inputs,
                   log, stop_at,
                   last_call>>

Worker ==
    \/ RunBegin
    \/ LoopExhausted
    \/ CheckCancelled
    \/ EmitStatus
    \/ ItemSucceeds
    \/ SaveFails
    \/ GetSizeFails
    \/ EmitError
    \/ EmitProgress
    \/ EmitFinished

(***************************************************************************)
(* CompressionWorker.stop, lines 74-76.                                     *)
(***************************************************************************)
\* the items the loop has entered so far (a "Compressing" status each)
ItemsEntered ==
    Cardinality({k \in 1..Len(events) :
                    events[k].type = "status" /\ events[k].text = "Compressing"})

\* stop_at after a call of stop(): it records how many items the loop had
\* entered and how many it had finished with at the first call, and whether
\* there was a second call
StopRecord ==
    IF stop_at.called THEN [stop_at EXCEPT !.again = TRUE]
    ELSE [called |-> TRUE, again |-> FALSE, entered |-> ItemsEntered,
          processed |-> Len(log)]

\* stop switching the flag over instead of clearing it
stop_Toggles ==
    /\ is_running' = ~is_running
    /\ stop_at' = StopRecord
    /\ last_call' = [op |-> "stop", started |-> pc # "none", raised |-> ""]

\* line 76; the call returns without raising
stop ==
    /\ is_running' = FALSE
    /\ stop_at' = StopRecord
    /\ last_call' = [op |-> "stop", started |-> pc # "none", raised |-> ""]

(***************************************************************************)
(* ClarityCompressApp: the slots of the window, run by the GUI thread.      *)
(***************************************************************************)
\* lines 159-163: append the files that are not yet in the list
RECURSIVE AppendNew(_, _)
AppendNew(list, files) ==
    IF files = <<>> THEN list
    ELSE AppendNew(IF files[1] \in Range(list) THEN list
                   ELSE Append(list, files[1]),
                   Tail2(files))

\* lines 159-164 (the list widget and the label follow image_files)
add_files_to_list(files) ==
    image_files' = AppendNew(image_files, files)

\* lines 136-144
select_files ==
    /\ window = "open"
    /\ \E files \in FileLists : add_files_to_list(files)
    /\ UNCHANGED <<output_directory, compress_enabled, clear_enabled, window,
                   pc, is_running, output_dir, workerLocals, events,
                   delivered, job_inputs, log, stop_at,
                   last_call>>

\* lines 146-157; a folder without images only shows a message box
select_folder ==
    /\ window = "open"
    /\ \E folder \in Dirs :
          IF FolderImages(folder) # <<>>
          THEN add_files_to_list(FolderImages(folder))
          ELSE UNCHANGED image_files
    /\ UNCHANGED <<output_directory, compress_enabled, clear_enabled, window,
                   pc, is_running, output_dir, workerLocals, events,
                   delivered, job_inputs, log, stop_at,
                   last_call>>

\* lines 166-170; the button is clickable only while enabled
clear_list ==
    /\ window = "open"
    /\ clear_enabled
    /\ image_files' = <<>>
    /\ UNCHANGED <<output_directory, compress_enabled, clear_enabled, window,
                   pc, is_running, output_dir, workerLocals, events,
                   delivered, job_inputs, log, stop_at,
                   last_call>>

\* lines 172-176
select_output_directory ==
    /\ window = "open"
    /\ \E folder \in Dirs : output_directory' = folder
    /\ UNCHANGED <<image_files, compress_enabled, clear_enabled, window, pc,
                   is_running, output_dir, workerLocals, events, delivered,
                   job_inputs, log, stop_at, last_call>>

\* lines 19-23: a new worker, with nothing emitted and no stop() yet
CompressionWorker(paths, dir) ==
    /\ output_dir' = dir
    /\ is_running' = TRUE
    /\ job_inputs' = paths
    /\ events' = <<>>
    /\ delivered' = 0
    /\ log' = <<>>
    /\ stop_at' = NotStopped

\* start beginning run again although the thread is running
start_Restarts(started) ==
    /\ last_call' = [op |-> "start", started |-> started, raised |-> ""]
    /\ pc' = "run"

\* line 194, QThread.start() of the class of line 10: it returns without
\* raising; if the thread is running it does nothing, otherwise run is
\* called on a new thread.  started tells whether this worker was
\* started before.
start(started) ==
    /\ last_call' = [op |-> "start", started |-> started, raised |-> ""]
    /\ pc' = IF started /\ isRunning THEN pc ELSE "run"

\* start_compression leaving the two buttons enabled
start_compression_KeepsEnabled ==
    /\ window = "open"
    /\ compress_enabled
    /\ IF image_files = <<>> \/ output_directory = ""
       THEN UNCHANGED <<pc, is_running, output_dir, events, delivered,
                        job_inputs, log, stop_at, last_call>>
       ELSE /\ CompressionWorker(image_files, output_directory)
            /\ start(FALSE)
    /\ UNCHANGED <<image_files, output_directory, compress_enabled,
                   clear_enabled, window, workerLocals>>

\* lines 178-194; the button is clickable only while enabled, and the two
\* early returns only show a message box
start_compression ==
    /\ window = "open"
    /\ compress_enabled
    /\ IF image_files = <<>> \/ output_directory = ""
       THEN UNCHANGED <<compress_enabled, clear_enabled, pc, is_running,
                        output_dir, events, delivered, job_inputs, log,
                        stop_at, last_call>>
       ELSE /\ compress_enabled' = FALSE
            /\ clear_enabled' = FALSE
            /\ CompressionWorker(image_files, output_directory)
            /\ start(FALSE)
    /\ UNCHANGED <<image_files, output_directory, window, workerLocals>>

\* the GUI thread is in its event loop and not inside worker.wait() (line
\* 224): it takes the queued signals in the order of their emission, also
\* those that were queued during the wait, once closeEvent has returned
GuiThreadFree == window # "closing"

\* the next queued signal of the worker
NextSignal == events[delivered + 1]

\* lines 196-197
update_progress ==
    /\ GuiThreadFree
    /\ delivered < Len(events)
    /\ NextSignal.type = "progress"
    /\ delivered' = delivered + 1
    /\ UNCHANGED <<hostVars, pc, is_running, output_dir, workerLocals, events,
                   job_inputs, log, stop_at,
                   last_call>>

\* lines 199-200
update_status ==
    /\ GuiThreadFree
    /\ delivered < Len(events)
    /\ NextSignal.type = "status"
    /\ delivered' = delivered + 1
    /\ UNCHANGED <<hostVars, pc, is_running, output_dir, workerLocals, events,
                   job_inputs, log, stop_at,
                   last_call>>

\* on_compression_finished enabling the Compress button only
on_compression_finished_CompressOnly ==
    /\ GuiThreadFree
    /\ delivered < Len(events)
    /\ NextSignal.type = "finished"
    /\ compress_enabled' = TRUE
    /\ events' = <<>>
    /\ delivered' = 0
    /\ job_inputs' = <<>>
    /\ log' = <<>>
    /\ stop_at' = NotStopped
    /\ UNCHANGED <<image_files, output_directory, clear_enabled, window, pc,
                   is_running, output_dir, workerLocals, last_call>>

\* lines 202-218; this was the worker's last signal, and the record of
\* its run is dropped with it
on_compression_finished ==
    /\ GuiThreadFree
    /\ delivered < Len(events)
    /\ NextSignal.type = "finished"
    /\ compress_enabled' = TRUE
    /\ clear_enabled' = TRUE
    /\ events' = <<>>
    /\ delivered' = 0
    /\ job_inputs' = <<>>
    /\ log' = <<>>
    /\ stop_at' = NotStopped
    /\ UNCHANGED <<image_files, output_directory, window, pc,
                   is_running, output_dir, workerLocals, last_call>>

\* closeEvent accepting the close without wait()
closeEvent_NoWait ==
    /\ window = "open"
    /\ window' = "closed"
    /\ IF pc # "none" /\ isRunning
       THEN stop
       ELSE UNCHANGED <<is_running, stop_at, last_call>>
    /\ UNCHANGED <<image_files, output_directory, compress_enabled,
                   clear_enabled, pc, output_dir, workerLocals, events,
                   delivered, job_inputs, log>>

\* lines 220-225: with a running worker, stop() and then wait(), which
\* blocks the GUI thread; without one, the close is accepted at once
closeEvent ==
    /\ window = "open"
    /\ IF pc # "none" /\ isRunning
       THEN /\ stop
            /\ window' = "closing"
       ELSE /\ window' = "closed"
            /\ UNCHANGED <<is_running, stop_at, last_call>>
    /\ UNCHANGED <<image_files, output_directory, compress_enabled,
                   clear_enabled, pc, output_dir, workerLocals, events,
                   delivered, job_inputs, log>>

\* lines 224-225: wait() returns once the thread has ended; event.accept()
closeAccept ==
    /\ window = "closing"
    /\ ~isRunning
    /\ window' = "closed"
    /\ UNCHANGED <<image_files, output_directory, compress_enabled,
                   clear_enabled, pc, is_running, output_dir,
                   workerLocals, events, delivered, job_inputs, log, stop_at,
                   last_call>>

Host ==
    \/ select_files
    \/ select_folder
    \/ clear_list
    \/ select_output_directory
    \/ start_compression
    \/ update_progress
    \/ update_status
    \/ on_compression_finished
    \/ closeEvent
    \/ closeAccept

Next == Worker \/ Host

Spec == Init /\ [][Next]_vars

(***************************************************************************)
(* The program with its scheduling: the worker thread keeps being           *)
(* scheduled and every single item operation returns, wait() returns once   *)
(* the thread has ended, and the event loop of the GUI thread delivers the  *)
(* queued signals whenever it is not blocked.                               *)
(***************************************************************************)
Deliver == update_progress \/ update_status \/ on_compression_finished

\* a step of the worker thread.  It is Worker with the percentage of line
\* 69 left open: in a behaviour of Spec its steps are the steps of Worker
\* and it is enabled exactly when Worker is, and to tell whether the thread
\* can take a step the arithmetic of line 69 need not be redone.
WorkerStep ==
    \/ RunBegin
    \/ LoopExhausted
    \/ CheckCancelled
    \/ EmitStatus
    \/ ItemSucceeds
    \/ SaveFails
    \/ GetSizeFails
    \/ EmitError
    \/ /\ pc = "progress"
       /\ \E percent \in 0..(100 * (i + 1)) :
             events' = Append(events, ProgressEv(i, percent))
       /\ i' = i + 1
       /\ pc' = "loop"
       /\ UNCHANGED <<hostVars, total_files, compressed_count,
                      original_size_total, compressed_size_total, is_running,
                      output_dir, delivered, job_inputs, log, stop_at,
                      last_call>>
    \/ EmitFinished

SpecFair ==
    /\ Spec
    /\ WF_vars(WorkerStep)
    /\ WF_vars(closeAccept)
    /\ WF_vars(Deliver)

(***************************************************************************)
(* The progress arithmetic of line 69 on its own: the worker is about to    *)
(* emit the progress of item i of total_files, for every total up to        *)
(* MaxTotalFiles and every i below it.                                      *)
(***************************************************************************)
InitProgress ==
    /\ image_files = <<>>
    /\ output_directory = "o"
    /\ compress_enabled = FALSE
    /\ clear_enabled = FALSE
    /\ window = "open"
    /\ pc = "progress"
    /\ is_running = TRUE
    /\ output_dir = "o"
    /\ total_files \in 1..MaxTotalFiles
    /\ i \in 0..(total_files - 1)
    /\ compressed_count = 0
    /\ original_size_total = 0
    /\ compressed_size_total = 0
    /\ events = <<>>
    /\ delivered = 0
    /\ job_inputs = <<>>
    /\ log = <<>>
    /\ stop_at = NotStopped
    /\ last_call = NoCall

NextProgress == EmitProgress

SpecProgress == InitProgress /\ [][NextProgress]_vars

(***************************************************************************)
(* CompressionWorker on its own (lines 10-76), driven by a caller that      *)
(* makes it with any list of inputs, the empty one included, and then calls *)
(* start() and stop() at any time.  The caller leaves the list alone, and   *)
(* pc = "none" is the worker that has not been started.                     *)
(***************************************************************************)
\* the lists a caller can hand to the constructor
WorkerInputs == FileLists \cup {<<>>}

InitWorker ==
    /\ image_files \in WorkerInputs
    /\ output_directory \in Dirs
    /\ compress_enabled = FALSE
    /\ clear_enabled = FALSE
    /\ window = "open"
    /\ pc = "none"
    /\ is_running = TRUE
    /\ output_dir = output_directory
    /\ total_files = 0
    /\ compressed_count = 0
    /\ original_size_total = 0
    /\ compressed_size_total = 0
    /\ i = 0
    /\ events = <<>>
    /\ delivered = 0
    /\ job_inputs = image_files
    /\ log = <<>>
    /\ stop_at = NotStopped
    /\ last_call = NoCall

\* the caller calls start(); a run that begins has emitted nothing yet and
\* has entered no item
CallStart ==
    /\ start(pc # "none")
    /\ IF isRunning
       THEN UNCHANGED <<events, log, stop_at>>
       ELSE /\ events' = <<>>
            /\ log' = <<>>
            /\ stop_at' = [stop_at EXCEPT !.entered = 0, !.processed = 0]
    /\ UNCHANGED <<hostVars, is_running, output_dir, workerLocals, delivered,
                   job_inputs>>

\* the caller calls stop()
CallStop ==
    /\ stop
    /\ UNCHANGED <<hostVars, pc, output_dir, workerLocals, events, delivered,
                   job_inputs, log>>

NextWorker == Worker \/ CallStart \/ CallStop

SpecWorker == InitWorker /\ [][NextWorker]_vars

(***************************************************************************)
(* The event stream of the current run.                                     *)
(***************************************************************************)
SignalsOfType(t) == {k \in 1..Len(events) : events[k].type = t}

FinishedSignals == SignalsOfType("finished")

ProgressSignals == SignalsOfType("progress")

ErrorSignals ==
    {k \in 1..Len(events) :
        events[k].type = "status" /\ events[k].text = "Error"}

\* the worker thread has ended and its finished signal is not yet handled
RunEnded == pc = "done" /\ ~compress_enabled

\* the signal a finished run ends with
Completed == events[Len(events)]

FailedItems == {k \in 1..Len(log) : ~log[k].ok}

SucceededItems == {k \in 1..Len(log) : log[k].ok}

(***************************************************************************)
(* C1: every run, whether it exhausts its inputs, is cancelled or has       *)
(* failing items, emits exactly one finished signal, and that signal is     *)
(* the last one of the run: a finished signal is only ever the last         *)
(* signal, it is there only when the thread has ended, and it is there      *)
(* whenever the thread has ended.                                           *)
(***************************************************************************)
C1_ExactlyOneFinishedLast ==
    /\ FinishedSignals \subseteq {Len(events)}
    /\ FinishedSignals # {} => pc = "done"
    /\ RunEnded => FinishedSignals # {}

\* a cancelled run with a failed and a succeeded item has ended
C1_Witness ==
    /\ RunEnded
    /\ stop_at.called
    /\ FailedItems # {}
    /\ SucceededItems # {}
    /\ Completed.type = "finished"

(***************************************************************************)
(* C2, as claimed: if stop() is called before the first item's processing   *)
(* has finished (also while it is in flight), finished carries (0, 0, 0).   *)
(***************************************************************************)
C2_CancelBeforeFirstItemCompletes ==
    (FinishedSignals # {} /\ stop_at.called /\ stop_at.processed = 0
        /\ job_inputs # <<>>)
    => (Completed.count = 0 /\ Completed.original = 0
        /\ Completed.compressed = 0)

(***************************************************************************)
(* C2, amended: if stop() is called before the loop has entered its first   *)
(* item (before the first check of the flag has passed, which includes      *)
(* before run begins), finished carries (0, 0, 0).                          *)
(***************************************************************************)
C2_CancelBeforeFirstItemEntered ==
    (FinishedSignals # {} /\ stop_at.called /\ stop_at.entered = 0
        /\ job_inputs # <<>>)
    => (Completed.count = 0 /\ Completed.original = 0
        /\ Completed.compressed = 0)

\* a run over a non-empty list, cancelled before its first item, has ended
C2_Witness ==
    /\ FinishedSignals # {}
    /\ stop_at.called
    /\ stop_at.entered = 0
    /\ job_inputs # <<>>
    /\ Completed.count = 0

(***************************************************************************)
(* C3: after stop() no further item is entered, so that at most the item    *)
(* whose check had already passed is processed after stop() returns; and    *)
(* once the loop has seen the cleared flag nothing is in flight, and only   *)
(* finished can follow.                                                     *)
(***************************************************************************)
C3_NoItemAfterCancel ==
    stop_at.called =>
        /\ ItemsEntered = stop_at.entered
        /\ Cardinality(ProgressSignals) <= stop_at.entered
        /\ Len(log) <= stop_at.processed + 1
        /\ pc = "finish" =>
              /\ Len(log) = ItemsEntered
              /\ Cardinality(ProgressSignals) = ItemsEntered

\* stop() came while the first item was in flight: that item was processed,
\* the next one was not
C3_Witness ==
    /\ RunEnded
    /\ stop_at.called
    /\ stop_at.entered = 1
    /\ stop_at.processed = 0
    /\ Len(log) = 1
    /\ Len(image_files) >= 2

(***************************************************************************)
(* C4: the size totals carried by finished are the sums of the original     *)
(* and of the compressed sizes of exactly the items that were processed     *)
(* successfully; a failing item adds nothing to either.                     *)
(***************************************************************************)
RECURSIVE SumOriginal(_)
SumOriginal(S) ==
    IF S = {} THEN 0
    ELSE LET k == CHOOSE x \in S : TRUE
         IN  log[k].original + SumOriginal(S \ {k})

RECURSIVE SumCompressed(_)
SumCompressed(S) ==
    IF S = {} THEN 0
    ELSE LET k == CHOOSE x \in S : TRUE
         IN  log[k].compressed + SumCompressed(S \ {k})

C4_TotalsOverSucceededItems ==
    FinishedSignals # {} =>
        /\ Completed.original = SumOriginal(SucceededItems)
        /\ Completed.compressed = SumCompressed(SucceededItems)

(***************************************************************************)
(* C5: in a run that is not cancelled a failing item does not stop the      *)
(* batch: every input of the job is visited, in order, with its status      *)
(* and its progress signal, and the count carried by finished is the        *)
(* number of items that succeeded.                                          *)
(***************************************************************************)
\* the position of the "Compressing" status of the item of index j (0 if none)
StatusPos(j) ==
    LET S == {k \in 1..Len(events) :
                 events[k].type = "status" /\ events[k].text = "Compressing"
                 /\ events[k].idx = j}
    IN  IF S = {} THEN 0 ELSE CHOOSE k \in S : TRUE

\* the position of the progress signal of the item of index j (0 if none)
ProgressPos(j) ==
    LET S == {k \in ProgressSignals : events[k].idx = j}
    IN  IF S = {} THEN 0 ELSE CHOOSE k \in S : TRUE

C5_FailureNeverStopsBatch ==
    (FinishedSignals # {} /\ ~stop_at.called) =>
        /\ Len(log) >= Len(job_inputs)
        /\ \A k \in 1..Len(job_inputs) :
              /\ StatusPos(k - 1) # 0
              /\ events[StatusPos(k - 1)].name = basename(job_inputs[k])
              /\ StatusPos(k - 1) < ProgressPos(k - 1)
              /\ k > 1 => ProgressPos(k - 2) < StatusPos(k - 1)
        /\ Completed.count = Cardinality(SucceededItems)

\* an uncancelled run whose first item failed and whose second succeeded
C5_Witness ==
    /\ RunEnded
    /\ ~stop_at.called
    /\ Len(job_inputs) = 2
    /\ Len(log) = 2
    /\ ~log[1].ok
    /\ log[2].ok
    /\ Completed.type = "finished"
    /\ Completed.count = 1

(***************************************************************************)
(* C6, as claimed: the stream is (status, progress) pairs, exactly one pair *)
(* per visited input, followed by one finished signal.                      *)
(***************************************************************************)
C6_PairsThenCompleted ==
    /\ \A k \in 1..Len(events) :
          IF events[k].type = "finished"
          THEN k = Len(events) /\ k % 2 = 1
          ELSE IF k % 2 = 1
               THEN /\ events[k].type = "status"
                    /\ events[k].idx = (k - 1) \div 2
               ELSE /\ events[k].type = "progress"
                    /\ events[k].idx = (k - 2) \div 2
    /\ RunEnded => FinishedSignals # {}

(***************************************************************************)
(* C6, amended: each visited input gives a "Compressing" status, then, if   *)
(* and only if the item failed, an "Error" status, then its progress; one   *)
(* finished signal follows the last input's progress and ends the stream.   *)
(***************************************************************************)
IsCompressing(e, j) ==
    e.type = "status" /\ e.text = "Compressing" /\ e.idx = j

IsError(e, j) == e.type = "status" /\ e.text = "Error" /\ e.idx = j

IsProgress(e, j) == e.type = "progress" /\ e.idx = j

C6_StreamShape ==
    /\ \A k \in 1..Len(events) :
          LET e == events[k]
          IN  IF k = 1 THEN IsCompressing(e, 0) \/ e.type = "finished"
              ELSE LET prev == events[k - 1]
                   IN  /\ prev.type # "finished"
                       /\ IsCompressing(prev, prev.idx) =>
                             IsError(e, prev.idx) \/ IsProgress(e, prev.idx)
                       /\ IsError(prev, prev.idx) => IsProgress(e, prev.idx)
                       /\ prev.type = "progress" =>
                             IsCompressing(e, prev.idx + 1)
                                \/ e.type = "finished"
    /\ \A k \in 1..Len(log) :
          ProgressPos(log[k].idx) # 0 =>
             (~log[k].ok <=> \E n \in ErrorSignals : events[n].idx = log[k].idx)
    /\ RunEnded =>
          /\ FinishedSignals = {Len(events)}
          /\ Cardinality(ProgressSignals) = ItemsEntered

\* a finished run of two visited inputs, one of which failed
C6_Witness ==
    /\ RunEnded
    /\ FinishedSignals # {}
    /\ ErrorSignals # {}
    /\ Cardinality(ProgressSignals) = 2

(***************************************************************************)
(* C7: the status of item i precedes the progress of item i, which          *)
(* precedes every signal of item i+1; the items that have signals are a     *)
(* gap-free prefix 0..k-1 of the inputs in increasing order, and k is the   *)
(* number N of inputs of the job when the run is not cancelled.             *)
(***************************************************************************)
ItemSignals == {k \in 1..Len(events) : events[k].type # "finished"}

C7_OrderedGapFreePrefix ==
    /\ \A k \in ItemSignals :
          /\ k = 1 => events[k].idx = 0
          /\ k > 1 =>
                IF events[k - 1].type = "progress"
                THEN IsCompressing(events[k], events[k - 1].idx + 1)
                ELSE /\ events[k].idx = events[k - 1].idx
                     /\ ~IsCompressing(events[k], events[k].idx)
    /\ (FinishedSignals # {} /\ ~stop_at.called) =>
          {events[k].idx : k \in ItemSignals} = 0..(Len(job_inputs) - 1)

(***************************************************************************)
(* C8: the progress emitted at step i of N inputs, 0 <= i < N, is           *)
(* floor((i+1)*100/N), and it is 100 exactly at i = N-1.                    *)
(***************************************************************************)
C8_ProgressIsFloor ==
    \A k \in ProgressSignals :
        events[k].idx < total_files =>
            /\ events[k].percent = ((events[k].idx + 1) * 100) \div total_files
            /\ events[k].percent = 100 <=> events[k].idx = total_files - 1

(***************************************************************************)
(* C9: every progress value emitted is an integer in 0..100.                *)
(***************************************************************************)
C9_PercentInRange ==
    \A k \in ProgressSignals : events[k].percent \in 0..100

(***************************************************************************)
(* C10: the count carried by finished is at most N, the number of inputs    *)
(* the job was started with.                                                *)
(***************************************************************************)
C10_CountAtMostInputs ==
    FinishedSignals # {} => Completed.count <= Len(job_inputs)

(***************************************************************************)
(* C11: the job request is immutable once the job has started: from the     *)
(* start of the worker to its finished signal no step (select files, select *)
(* folder, clear list, choose save location) changes the sequence the       *)
(* worker iterates over or the directory it writes to.                      *)
(***************************************************************************)
C11_JobRequestImmutable ==
    [][(isRunning /\ isRunning') =>
          (image_paths' = image_paths /\ output_dir' = output_dir)]_vars

C15_CancelIdempotent ==
    /\ [](stop_at.called => ~is_running)
    /\ [][(stop_at.called /\ last_call'.op = "stop"
              /\ <<stop_at, last_call>>' # <<stop_at, last_call>>) =>
            UNCHANGED <<hostVars, pc, is_running, output_dir, workerLocals,
                        events, delivered, job_inputs, log>>]_vars

\* stop() was called while the first of two items was in flight and again
\* later, and the run has ended after that one item
C15_Witness ==
    /\ stop_at.again
    /\ stop_at.entered = 1
    /\ pc = "done"
    /\ Len(job_inputs) = 2
    /\ ItemsEntered = 1
    /\ FinishedSignals # {}

(***************************************************************************)
(* C16: a run over an empty list of inputs enters no item, so that it       *)
(* divides by no zero total and emits neither status nor progress; it emits *)
(* finished with (0, 0, 0) and nothing else.                                *)
(***************************************************************************)
C16_EmptyJob ==
    job_inputs = <<>> =>
        /\ pc \notin {"try", "except", "progress"}
        /\ log = <<>>
        /\ \A k \in 1..Len(events) : events[k] = FinishedEv(0, 0, 0)
        /\ pc = "done" => events = <<FinishedEv(0, 0, 0)>>

\* the run of a worker made with the empty list has ended
C16_Witness ==
    /\ job_inputs = <<>>
    /\ image_paths = <<>>
    /\ pc = "done"
    /\ ~stop_at.called
    /\ events = <<FinishedEv(0, 0, 0)>>

(***************************************************************************)
(* C13: at most one job is active and its items are processed one at a      *)
(* time: whatever the user does, a worker is started only when no worker    *)
(* loop is in progress, Compress cannot be clicked while one is, and the    *)
(* items of the run are taken one after the other, at most one in flight.   *)
(***************************************************************************)
C13_OneActiveWorker ==
    /\ [](isRunning => ~compress_enabled)
    /\ [](\A k \in 1..Len(log) : log[k].idx = k - 1)
    /\ [](ItemsEntered - Len(log) \in {0, 1})
    /\ [][(pc' = "run" /\ pc # "run") => ~isRunning]_vars

\* an item is in flight while the user has selected more files, and the
\* Compress button cannot be clicked
C13_Witness ==
    /\ pc = "try"
    /\ window = "open"
    /\ ~compress_enabled
    /\ Len(image_files) > Len(job_inputs)
    /\ Len(log) = 1

(***************************************************************************)
(* C14: when the window is closed while a worker is running, the host calls *)
(* stop() and then waits for the worker; as every item operation returns,   *)
(* the close is eventually accepted; once it is accepted the worker thread  *)
(* has ended, and no worker runs, processes an item or writes a file from   *)
(* then on.                                                                 *)
(***************************************************************************)
C14_Teardown ==
    /\ [](window = "closing" => (stop_at.called /\ ~is_running))
    /\ [](window = "closed" => ~isRunning)
    /\ [][window = "closed" => (window' = "closed" /\ pc' = pc)]_vars
    /\ (window = "closing") ~> (window = "closed")

\* the close was accepted after the wait for a run that stop() cut short
\* after its first item
C14_Witness ==
    /\ window = "closed"
    /\ stop_at.called
    /\ pc = "done"
    /\ Len(log) = 1
    /\ Len(job_inputs) = 2

(***************************************************************************)
(* C19: the Compress and the Clear List button are disabled exactly from    *)
(* the start of a worker until its finished signal has been handled; a      *)
(* worker is started only with a non-empty input list and a chosen output   *)
(* directory; and every started run, also one with failures and one that    *)
(* was cancelled, eventually has both buttons enabled again.                *)
(***************************************************************************)
\* a worker has been started and its finished signal is not yet handled
Pending == isRunning \/ FinishedSignals # {}

C19_ButtonsFollowRun ==
    /\ [](compress_enabled <=> ~Pending)
    /\ [](clear_enabled <=> ~Pending)
    /\ [](Pending => (job_inputs # <<>> /\ output_dir # ""))
    /\ ~compress_enabled ~> (compress_enabled /\ clear_enabled)

\* the finished signal of a run that closing the window cancelled has been
\* handled, and both buttons are enabled again
C19_Witness ==
    /\ compress_enabled
    /\ clear_enabled
    /\ last_call.op = "stop"
    /\ pc = "done"
    /\ window = "closed"
    /\ events = <<>>

(***************************************************************************)
(* C17: processing an item never mutates an input file: whatever inputs     *)
(* and whatever output directory the user has chosen, the directory of an   *)
(* input included, the path an item was written to is none of the input     *)
(* paths of the job.                                                        *)
(***************************************************************************)
C17_InputsNotWritten ==
    \A k \in SucceededItems :
        output_path(output_dir, image_paths[log[k].idx + 1])
            \notin Range(image_paths)

(***************************************************************************)
(* C18: any two different entries of the input list of a submitted job map  *)
(* to different output paths (the output directory joined with the entry's  *)
(* basename), so that no item's output overwrites another's.                *)
(***************************************************************************)
C18_DistinctOutputs ==
    \A a, b \in 1..Len(job_inputs) :
        a # b => output_path(output_dir, job_inputs[a])
                    # output_path(output_dir, job_inputs[b])

====
